---------------------------- MODULE Spec2Model ----------------------------
(***************************************************************************)
(* Model of the mixture ingestion pipeline of                              *)
(* src/HeeJoon/src/data/mixture_ingest.py: page discovery and pagination   *)
(* (fetch_all_from_api), record normalisation (clean_record,               *)
(* _parse_date_yyyymmdd), batched upsert (upsert_to_supabase) and the      *)
(* orchestrator (fetch_mixture_data, ingest_mixture_to_supabase).          *)
(*                                                                         *)
(* Python strings are sequences of characters; a character is a one-letter *)
(* TLA+ string, and the two Hangul syllables of the DEL_YN token are       *)
(* written by their code points ("U+C815", "U+C0C1").  Python values are   *)
(* tagged records (PyNone, PyBool, PyInt, PyStr, PyDict), all with the     *)
(* same fields so that any two of them can be compared.                    *)
(***************************************************************************)
EXTENDS Integers, Sequences, FiniteSets, TLC

VARIABLES
    \* ---- normalisation harness (clean_record applied to one raw record)
    raw,            \* the raw record given to clean_record (a PyDict)
    out,            \* the record clean_record returned (a PyDict)
    cpc,            \* "input" before the call, "cleaned" after it
    \* ---- configuration and upstream API
    cfgOk,          \* MIXTURE_API_BASE_URL and MIXTURE_API_SERVICE_KEY are set
    save_raw,       \* ingest_mixture_to_supabase(save_raw)
    num_of_rows,    \* MIXTURE_API_NUM_OF_ROWS, the configured page size
    probeTotal,     \* body.totalCount of the upstream: [present, value]
    upstream,       \* upstream[p]: the items the API served for page p
    \* ---- fetch_all_from_api
    total_count,
    total_pages,
    page,           \* the loop variable of "for page in range(1, total_pages + 1)"
    all_items,
    requests,       \* the fetch_page calls of this run: <<pageNo, numOfRows, ok>>
    \* ---- orchestrator
    pc,             \* position of the run
    callNo,         \* which call of upsert_to_supabase with these rows this is
    error,          \* the exception that ended the callNo, "" when none
    snapshot,       \* what has been dumped to the raw snapshot file this run
    cleaned_items,
    \* ---- upsert_to_supabase
    batch_size,
    batches,
    i,              \* the loop variable of "for i in range(batches)"
    calls,          \* the batches handed to upsert(...).execute() this call
    failedCall,     \* the batch whose execute() raised, <<>> when none did
    \* ---- destination store
    dest,           \* the rows of table "mixtures"
    destAtCall,     \* the table when upsert_to_supabase was called
    destFirst       \* the table when a run first completed without error

normVars == <<raw, out, cpc>>
cfgVars == <<cfgOk, save_raw, num_of_rows, probeTotal>>
fetchVars == <<total_count, total_pages, page, all_items, requests>>
upVars == <<batch_size, batches, i, calls, failedCall>>
vars == <<raw, out, cpc, cfgOk, save_raw, num_of_rows, probeTotal, upstream,
          total_count, total_pages, page, all_items, requests, pc, callNo, error,
          snapshot, cleaned_items, batch_size, batches, i, calls, failedCall,
          dest, destAtCall, destFirst>>

-----------------------------------------------------------------------------
(* Bounds of the model.                                                    *)

MaxStrLen == 2      \* generated field values: every string up to this length
MaxCount == 5       \* totalCount reported by the probe
MaxPageSize == 2    \* configured page size (num_of_rows)
MaxCalls == 2       \* calls of upsert_to_supabase with the same rows
MaxRows == 4        \* rows given to upsert_to_supabase on its own
MaxBatch == 3       \* batch_size given to upsert_to_supabase on its own

-----------------------------------------------------------------------------
(* Characters and strings.                                                 *)

UpperLetters == <<"A","B","C","D","E","F","G","H","I","J","K","L","M","N","O","P","Q","R","S","T","U","V","W","X","Y","Z">>
LowerLetters == <<"a","b","c","d","e","f","g","h","i","j","k","l","m","n","o","p","q","r","s","t","u","v","w","x","y","z">>
Digits == <<"0","1","2","3","4","5","6","7","8","9">>
Whitespace == {" ", "\t", "\n", "\r"}

Range(f) == {f[x] : x \in DOMAIN f}

IndexIn(c, letters) == CHOOSE k \in DOMAIN letters : letters[k] = c

\* str.lower() / str.upper() on one character: cased letters map to the other
\* case, everything else (digits, "_", Hangul) is left alone.
UpperSet == Range(UpperLetters)
LowerSet == Range(LowerLetters)
LowerTable == [c \in UpperSet |-> LowerLetters[IndexIn(c, UpperLetters)]]
UpperTable == [c \in LowerSet |-> UpperLetters[IndexIn(c, LowerLetters)]]
LowerChar(c) == IF c \in UpperSet THEN LowerTable[c] ELSE c
UpperChar(c) == IF c \in LowerSet THEN UpperTable[c] ELSE c

Lower(s) == [k \in DOMAIN s |-> LowerChar(s[k])]
Upper(s) == [k \in DOMAIN s |-> UpperChar(s[k])]

\* str.capitalize(): used only to build raw keys of a third casing
Capitalize(s) == [k \in DOMAIN s |-> IF k = 1 THEN UpperChar(s[k]) ELSE LowerChar(s[k])]

DigitSet == Range(Digits)
IsDigitChar(c) == c \in DigitSet

\* str.isdigit(): non-empty and every character a digit
IsDigit(s) == Len(s) > 0 /\ \A k \in DOMAIN s : IsDigitChar(s[k])

RECURSIVE LStrip(_)
LStrip(s) == IF s /= <<>> /\ Head(s) \in Whitespace THEN LStrip(Tail(s)) ELSE s

RECURSIVE RStrip(_)
RStrip(s) == IF s /= <<>> /\ s[Len(s)] \in Whitespace THEN RStrip(SubSeq(s, 1, Len(s) - 1)) ELSE s

\* str.strip()
Strip(s) == RStrip(LStrip(s))

\* s[a:b] for 0 <= a <= b, clamped to the string as Python slices are
Slice(s, a, b) == SubSeq(s, a + 1, IF b < Len(s) THEN b ELSE Len(s))

RECURSIVE NatStr(_)
NatStr(n) == IF n < 10 THEN <<Digits[n + 1]>> ELSE NatStr(n \div 10) \o <<Digits[(n % 10) + 1]>>

\* str(int)
IntStr(n) == IF n < 0 THEN <<"-">> \o NatStr(-n) ELSE NatStr(n)

-----------------------------------------------------------------------------
(* Python values.                                                          *)

EmptyDict == [k \in {} |-> 0]

PyNone == [t |-> "none", b |-> FALSE, n |-> 0, s |-> <<>>, d |-> EmptyDict]
PyBool(x) == [t |-> "bool", b |-> x, n |-> 0, s |-> <<>>, d |-> EmptyDict]
PyInt(x) == [t |-> "int", b |-> FALSE, n |-> x, s |-> <<>>, d |-> EmptyDict]
PyStr(x) == [t |-> "str", b |-> FALSE, n |-> 0, s |-> x, d |-> EmptyDict]
PyDict(x) == [t |-> "dict", b |-> FALSE, n |-> 0, s |-> <<>>, d |-> x]

\* the numeric value of a bool or an int (bool is a subclass of int)
NumOf(v) == IF v.t = "bool" THEN (IF v.b THEN 1 ELSE 0) ELSE v.n

IsNum(v) == v.t \in {"bool", "int"}

\* a == b
PyEq(a, b) ==
    IF IsNum(a) /\ IsNum(b) THEN NumOf(a) = NumOf(b)
    ELSE a.t = b.t /\ a = b

\* bool(v), which "not value" negates
Truthy(v) ==
    CASE v.t = "none" -> FALSE
      [] v.t = "bool" -> v.b
      [] v.t = "int" -> v.n /= 0
      [] v.t = "str" -> v.s /= <<>>
      [] OTHER -> DOMAIN v.d /= {}

\* str(v) for the scalar values of a raw record
ToStr(v) ==
    CASE v.t = "none" -> <<"N","o","n","e">>
      [] v.t = "bool" -> IF v.b THEN <<"T","r","u","e">> ELSE <<"F","a","l","s","e">>
      [] v.t = "int" -> IntStr(v.n)
      [] OTHER -> v.s

\* x in (a, b, ...): equal to some element
PyIn(x, tuple) == \E k \in DOMAIN tuple : PyEq(x, tuple[k])

\* d[k] = v
DictSet(d, k, v) == [x \in (DOMAIN d) \cup {k} |-> IF x = k THEN v ELSE d[x]]

-----------------------------------------------------------------------------
(* The canonical columns.                                                  *)

COL_TYPE_NAME == <<"T","Y","P","E","_","N","A","M","E">>
COL_MIX_TYPE == <<"M","I","X","_","T","Y","P","E">>
COL_INGR_CODE == <<"I","N","G","R","_","C","O","D","E">>
COL_INGR_ENG_NAME == <<"I","N","G","R","_","E","N","G","_","N","A","M","E">>
COL_INGR_KOR_NAME == <<"I","N","G","R","_","K","O","R","_","N","A","M","E">>
COL_MIX == <<"M","I","X">>
COL_ORI == <<"O","R","I">>
COL_CLASS == <<"C","L","A","S","S">>
COL_MIXTURE_MIX_TYPE == <<"M","I","X","T","U","R","E","_","M","I","X","_","T","Y","P","E">>
COL_MIXTURE_INGR_CODE == <<"M","I","X","T","U","R","E","_","I","N","G","R","_","C","O","D","E">>
COL_MIXTURE_INGR_ENG_NAME == <<"M","I","X","T","U","R","E","_","I","N","G","R","_","E","N","G","_","N","A","M","E">>
COL_MIXTURE_INGR_KOR_NAME == <<"M","I","X","T","U","R","E","_","I","N","G","R","_","K","O","R","_","N","A","M","E">>
COL_MIXTURE_MIX == <<"M","I","X","T","U","R","E","_","M","I","X">>
COL_MIXTURE_ORI == <<"M","I","X","T","U","R","E","_","O","R","I">>
COL_MIXTURE_CLASS == <<"M","I","X","T","U","R","E","_","C","L","A","S","S">>
COL_NOTIFICATION_DATE == <<"N","O","T","I","F","I","C","A","T","I","O","N","_","D","A","T","E">>
COL_PROHBT_CONTENT == <<"P","R","O","H","B","T","_","C","O","N","T","E","N","T">>
COL_REMARK == <<"R","E","M","A","R","K">>
COL_DEL_YN == <<"D","E","L","_","Y","N">>

MIXTURE_COLUMNS ==
    << COL_TYPE_NAME, COL_MIX_TYPE, COL_INGR_CODE, COL_INGR_ENG_NAME,
       COL_INGR_KOR_NAME, COL_MIX, COL_ORI, COL_CLASS, COL_MIXTURE_MIX_TYPE,
       COL_MIXTURE_INGR_CODE, COL_MIXTURE_INGR_ENG_NAME,
       COL_MIXTURE_INGR_KOR_NAME, COL_MIXTURE_MIX, COL_MIXTURE_ORI,
       COL_MIXTURE_CLASS, COL_NOTIFICATION_DATE, COL_PROHBT_CONTENT,
       COL_REMARK, COL_DEL_YN >>

-----------------------------------------------------------------------------
(* RecordNormalizer: _parse_date_yyyymmdd and clean_record.                *)

\* "정상"
TOKEN_NORMAL == <<"U+C815", "U+C0C1">>

\* (False, "f", "false", "False", "N", "n", "0", 0)
DEL_YN_FALSY ==
    << PyBool(FALSE), PyStr(<<"f">>), PyStr(<<"f","a","l","s","e">>),
       PyStr(<<"F","a","l","s","e">>), PyStr(<<"N">>), PyStr(<<"n">>),
       PyStr(<<"0">>), PyInt(0) >>

\* f"{s[:4]}-{s[4:6]}-{s[6:8]}"
FormatIso(s) == Slice(s, 0, 4) \o <<"-">> \o Slice(s, 4, 6) \o <<"-">> \o Slice(s, 6, 8)

_parse_date_yyyymmdd(value) ==
    IF ~Truthy(value) \/ value.t = "none" THEN PyNone
    ELSE LET s == Strip(ToStr(value))
         IN  IF Len(s) = 8 /\ IsDigit(s) THEN PyStr(FormatIso(s)) ELSE PyStr(s)

\* faulty variant: the exact name is tried after the lowercase one
ResolveLowerFirst(r, col) ==
    IF Lower(col) \in DOMAIN r THEN r[Lower(col)]
    ELSE IF col \in DOMAIN r THEN r[col]
    ELSE IF Upper(col) \in DOMAIN r THEN r[Upper(col)]
    ELSE PyNone

\* val = None; if col in raw ... elif col.lower() in raw ... elif col.upper() in raw ...
Resolve(r, col) ==
    IF col \in DOMAIN r THEN r[col]
    ELSE IF Lower(col) \in DOMAIN r THEN r[Lower(col)]
    ELSE IF Upper(col) \in DOMAIN r THEN r[Upper(col)]
    ELSE PyNone

\* faulty variant: the tokens are compared without regard to case
DelYnIgnoreCase(val) ==
    IF PyEq(val, PyStr(TOKEN_NORMAL))
       \/ PyIn(IF val.t = "str" THEN PyStr(Lower(val.s)) ELSE val, DEL_YN_FALSY)
    THEN PyBool(FALSE)
    ELSE PyBool(TRUE)

\* the DEL_YN branch of clean_record
DelYn(val) ==
    IF PyEq(val, PyStr(TOKEN_NORMAL)) \/ PyIn(val, DEL_YN_FALSY)
    THEN PyBool(FALSE)
    ELSE PyBool(TRUE)

\* faulty variant: a value that is not None is stored as it is, without str()
OtherFieldRaw(val) == IF val.t /= "none" THEN val ELSE PyStr(<<>>)

\* the else branch of clean_record: str(val).strip() if val is not None else ""
OtherField(val) == IF val.t /= "none" THEN PyStr(Strip(ToStr(val))) ELSE PyStr(<<>>)

\* what clean_record stores in out[col] for the resolved value val
FieldValue(col, val) ==
    IF col = COL_NOTIFICATION_DATE THEN _parse_date_yyyymmdd(val)
    ELSE IF col = COL_DEL_YN THEN DelYn(val)
    ELSE OtherField(val)

\* the loop "for col in MIXTURE_COLUMNS" from column k on, out being built
RECURSIVE CleanLoop(_, _, _)
CleanLoop(r, k, o) ==
    IF k > Len(MIXTURE_COLUMNS) THEN o
    ELSE LET col == MIXTURE_COLUMNS[k]
         IN  CleanLoop(r, k + 1, DictSet(o, col, FieldValue(col, Resolve(r, col))))

\* clean_record(raw) for a raw record given as the dict r
clean_record(r) == CleanLoop(r, 1, EmptyDict)

-----------------------------------------------------------------------------
(* Raw records given to clean_record.                                      *)

GenChars == {" ", "0", "n"}

\* every string over GenChars of length at most n
RECURSIVE StringsUpTo(_)
StringsUpTo(n) ==
    IF n = 0 THEN {<<>>}
    ELSE LET shorter == StringsUpTo(n - 1)
         IN  shorter \cup {Append(s, c) : s \in shorter, c \in GenChars}

SampleStrings ==
    { <<"2","0","2","3","0","1","1","5">>,
      <<" ","2","0","2","3","0","1","1","5","\n">>,
      <<"2","0","2","3","-","0","1","-","1","5">>,
      <<"2","0","2","3","0","1","1","a">>,
      <<"2","0","2","3","0","1","1","5","1">>,
      <<"2","0","2","3","/","0","1","/","1","5">>,
      TOKEN_NORMAL,
      Append(TOKEN_NORMAL, " "),
      <<"f">>, <<"F">>, <<"N">>, <<"Y">>,
      <<"f","a","l","s","e">>, <<"F","a","l","s","e">>, <<"F","A","L","S","E">>,
      <<"t","r","u","e">> }

SampleInts == {-1, 0, 1, 20230115}

Values ==
    {PyNone} \cup {PyBool(x) : x \in BOOLEAN} \cup {PyInt(x) : x \in SampleInts}
    \cup {PyStr(x) : x \in StringsUpTo(MaxStrLen) \cup SampleStrings}

\* the value a second key of the same column carries
OtherValues == {PyNone, PyStr(<<"x">>), PyInt(0)}

Columns == Range(MIXTURE_COLUMNS)

KeyForms == {"exact", "lower", "capital"}

KeyOf(col, form) ==
    CASE form = "exact" -> col
      [] form = "lower" -> Lower(col)
      [] OTHER -> Capitalize(col)

\* a record holding every column under keys of one casing, "" for no key at all
Background(form) ==
    IF form = "" THEN EmptyDict
    ELSE [k \in {KeyOf(col, form) : col \in Columns} |-> PyStr(<<" ", "b">>)]

BackgroundForms == {"", "exact", "lower"}
Backgrounds == [bg \in BackgroundForms |-> Background(bg)]
Keys == [col \in Columns |-> [f \in KeyForms |-> KeyOf(col, f)]]

\* how the column under test is keyed: not at all, under one key, under two
FocusForms ==
    { <<>>, <<"exact">>, <<"lower">>, <<"capital">>,
      <<"exact", "lower">>, <<"lower", "exact">>, <<"lower", "capital">> }

\* the raw record: a background, with column col set to v under key f[1] and
\* to w under key f[2]
RawRecord(bg, col, f, v, w) ==
    IF Len(f) = 0 THEN Backgrounds[bg]
    ELSE IF Len(f) = 1 THEN DictSet(Backgrounds[bg], Keys[col][f[1]], v)
    ELSE DictSet(DictSet(Backgrounds[bg], Keys[col][f[1]], v), Keys[col][f[2]], w)

-----------------------------------------------------------------------------
(* Upstream API and destination store.                                     *)

ITEM == <<"i","t","e","m">>

\* three raw records of the upstream; RecA and RecA2 are the same logical
\* entity (same ingredient code, mix type and class) with different remarks
RecA ==
    DictSet(DictSet(EmptyDict, Lower(COL_INGR_CODE), PyStr(<<"A","1">>)),
            Lower(COL_REMARK), PyStr(<<" ","r","1">>))
RecA2 ==
    DictSet(DictSet(DictSet(EmptyDict, COL_INGR_CODE, PyStr(<<"A","1">>)),
                    COL_REMARK, PyStr(<<"r","2">>)),
            COL_DEL_YN, PyStr(TOKEN_NORMAL))
RecB ==
    DictSet(DictSet(EmptyDict, COL_INGR_CODE, PyInt(2)),
            COL_NOTIFICATION_DATE, PyStr(<<"2","0","2","3","0","1","1","5">>))

Wrap(r) == PyDict(DictSet(EmptyDict, ITEM, PyDict(r)))

\* the items a page may carry: one unwrapped and two wrapped as {"item": X}
PageItems == {PyDict(RecA), Wrap(RecA2), Wrap(RecB)}

\* the API serves at most numOfRows items on a page
PageCapacity(n) == IF n > 0 THEN n ELSE 1

RECURSIVE SeqsUpTo(_, _)
SeqsUpTo(S, n) ==
    IF n = 0 THEN {<<>>}
    ELSE LET shorter == SeqsUpTo(S, n - 1)
         IN  shorter \cup {Append(s, x) : s \in shorter, x \in S}

\* the pages the API may serve for a request of n rows
PagesOf(n) == SeqsUpTo(PageItems, PageCapacity(n))

\* the unique key of table "mixtures" on which the store resolves conflicts
NaturalKey(row) == <<row[COL_INGR_CODE], row[COL_MIX_TYPE], row[COL_CLASS]>>

\* upsert of one row: a row with the same key is overwritten in place, a row
\* with a new key is inserted
UpsertRow(table, row) ==
    IF \E k \in DOMAIN table : NaturalKey(table[k]) = NaturalKey(row)
    THEN [k \in DOMAIN table |->
            IF NaturalKey(table[k]) = NaturalKey(row) THEN row ELSE table[k]]
    ELSE Append(table, row)

\* client.table(...).upsert(batch).execute() that succeeds
RECURSIVE UpsertRows(_, _)
UpsertRows(table, batch) ==
    IF batch = <<>> THEN table
    ELSE UpsertRows(UpsertRow(table, Head(batch)), Tail(batch))

-----------------------------------------------------------------------------
(* Collector: fetch_all_from_api.                                          *)

\* math.ceil(a / b) for b > 0
CeilDiv(a, b) == -((-a) \div b)

\* faulty variant: the page count is rounded down
TotalPagesFloor(count, n) == IF n > 0 THEN count \div n ELSE 1

\* math.ceil(total_count / num_of_rows) if num_of_rows > 0 else 1
TotalPages(count, n) == IF n > 0 THEN CeilDiv(count, n) ELSE 1

\* first_page.get("body", {}).get("totalCount", 0)
TotalCountOf(resp) == IF resp.present THEN resp.value ELSE 0

\* the body of "for item_wrapper in items"
UnwrapItem(w) == IF w.t = "dict" /\ ITEM \in DOMAIN w.d THEN w.d[ITEM] ELSE w

\* faulty variant: the items of a page are put in front of the ones collected so far
ExtendItemsFront(acc, items) == [k \in DOMAIN items |-> UnwrapItem(items[k])] \o acc

\* all_items after the inner loop over one page's items
RECURSIVE ExtendItems(_, _)
ExtendItems(acc, items) ==
    IF items = <<>> THEN acc
    ELSE ExtendItems(Append(acc, UnwrapItem(Head(items))), Tail(items))

NoSnapshot == [saved |-> FALSE, items |-> <<>>]
NoFailedCall == [k |-> 0, batch |-> <<>>]
NoTable == [set |-> FALSE, rows |-> <<>>]

\* fetch_mixture_data: a missing base URL or service key raises ValueError
ConfigMissing ==
    /\ pc = "start"
    /\ ~cfgOk
    /\ pc' = "failed"
    /\ error' = "ValueError"
    /\ UNCHANGED <<normVars, cfgVars, upstream, fetchVars, callNo, snapshot,
                   cleaned_items, upVars, dest, destFirst, destAtCall>>

\* the probe fetch_page(page_no=1, num_of_rows=1) succeeds; total_count and
\* total_pages are computed; the loop starts, or is over when there is no page
Probe ==
    /\ pc = "start"
    /\ cfgOk
    /\ requests' = Append(requests, <<1, 1, TRUE>>)
    /\ total_count' = TotalCountOf(probeTotal)
    /\ total_pages' = TotalPages(total_count', num_of_rows)
    /\ page' = 1
    /\ pc' = IF total_pages' >= 1 THEN "pages" ELSE "collected"
    /\ UNCHANGED <<normVars, cfgVars, upstream, all_items, callNo, error, snapshot,
                   cleaned_items, upVars, dest, destFirst, destAtCall>>

\* the probe raises (raise_for_status, timeout, connection error)
ProbeFail ==
    /\ pc = "start"
    /\ cfgOk
    /\ requests' = Append(requests, <<1, 1, FALSE>>)
    /\ pc' = "failed"
    /\ error' = "FetchError"
    /\ UNCHANGED <<normVars, cfgVars, upstream, total_count, total_pages, page,
                   all_items, callNo, snapshot, cleaned_items, upVars, dest,
                   destFirst, destAtCall>>

\* one iteration of "for page in range(1, total_pages + 1)" whose fetch_page
\* succeeds: the items of the page are unwrapped and appended
FetchDataPage ==
    /\ pc = "pages"
    /\ page <= total_pages
    /\ \E items \in PagesOf(num_of_rows) :
          /\ upstream' = Append(upstream, items)
          /\ all_items' = ExtendItems(all_items, items)
    /\ requests' = Append(requests, <<page, num_of_rows, TRUE>>)
    /\ page' = page + 1
    /\ pc' = IF page = total_pages THEN "collected" ELSE "pages"
    /\ UNCHANGED <<normVars, cfgVars, total_count, total_pages, callNo, error,
                   snapshot, cleaned_items, upVars, dest, destFirst, destAtCall>>

\* faulty variant: a page whose fetch raises is skipped and the loop goes on
FetchDataPageSkip ==
    /\ pc = "pages"
    /\ page <= total_pages
    /\ upstream' = Append(upstream, <<>>)
    /\ requests' = Append(requests, <<page, num_of_rows, FALSE>>)
    /\ page' = page + 1
    /\ pc' = IF page = total_pages THEN "collected" ELSE "pages"
    /\ error' = "FetchError"
    /\ UNCHANGED <<normVars, cfgVars, total_count, total_pages, all_items, callNo,
                   snapshot, cleaned_items, upVars, dest, destFirst, destAtCall>>

\* fetch_page raises inside the loop: fetch_all_from_api is left by the exception
FetchDataPageFail ==
    /\ pc = "pages"
    /\ page <= total_pages
    /\ requests' = Append(requests, <<page, num_of_rows, FALSE>>)
    /\ pc' = "failed"
    /\ error' = "FetchError"
    /\ UNCHANGED <<normVars, cfgVars, upstream, total_count, total_pages, page,
                   all_items, callNo, snapshot, cleaned_items, upVars, dest,
                   destFirst, destAtCall>>

-----------------------------------------------------------------------------
(* Orchestrator: fetch_mixture_data after the collection, and              *)
(* ingest_mixture_to_supabase up to the call of upsert_to_supabase.        *)

\* "if save_path": json.dump(items, f) writes the snapshot file
SaveSnapshot ==
    /\ pc = "collected"
    /\ save_raw
    /\ snapshot' = [saved |-> TRUE, items |-> all_items]
    /\ pc' = "fetched"
    /\ UNCHANGED <<normVars, cfgVars, upstream, fetchVars, callNo, error,
                   cleaned_items, upVars, dest, destFirst, destAtCall>>

\* os.makedirs / open / json.dump raises OSError
SaveSnapshotFail ==
    /\ pc = "collected"
    /\ save_raw
    /\ pc' = "failed"
    /\ error' = "OSError"
    /\ UNCHANGED <<normVars, cfgVars, upstream, fetchVars, callNo, snapshot,
                   cleaned_items, upVars, dest, destFirst, destAtCall>>

\* [clean_record(item) for item in raw_items]
CleanAll(items) == [k \in DOMAIN items |-> clean_record(items[k].d)]

\* batch_size: int = 500
DEFAULT_BATCH_SIZE == 500

\* steps 2 to 4 of ingest_mixture_to_supabase: every raw item is cleaned,
\* ensure_table_exists only prints, upsert_to_supabase is called with the
\* default batch size
Normalize ==
    /\ IF save_raw THEN pc = "fetched" ELSE pc = "collected"
    /\ cleaned_items' = CleanAll(all_items)
    /\ batch_size' = DEFAULT_BATCH_SIZE
    /\ destAtCall' = dest
    /\ pc' = "call"
    /\ UNCHANGED <<normVars, cfgVars, upstream, fetchVars, callNo, error, snapshot,
                   batches, i, calls, failedCall, dest, destFirst>>

-----------------------------------------------------------------------------
(* UpsertBatcher: upsert_to_supabase.                                      *)

\* faulty variant: the number of batches is rounded down
BatchCountFloor(total, size) == total \div size

\* batches = math.ceil(total / batch_size)
BatchCount(total, size) == CeilDiv(total, size)

\* faulty variant: the slice starts one row late
BatchSliceLate(rows, k, size) == Slice(rows, k * size + 1, k * size + size)

\* start = i * batch_size; end = start + batch_size; rows[start:end]
BatchSlice(rows, k, size) == Slice(rows, k * size, k * size + size)

\* the table once a run has completed, kept from the first time on
Completed(table) == IF destFirst.set THEN destFirst ELSE [set |-> TRUE, rows |-> table]

\* upsert_to_supabase is entered: nothing to do for no rows, else the loop starts
UpsertBegin ==
    /\ pc = "call"
    /\ IF Len(cleaned_items) = 0
       THEN /\ pc' = "done"
            /\ batches' = 0
            /\ destFirst' = Completed(dest)
       ELSE /\ pc' = "upsert"
            /\ batches' = BatchCount(Len(cleaned_items), batch_size)
            /\ destFirst' = destFirst
    /\ i' = 0
    /\ UNCHANGED <<normVars, cfgVars, upstream, fetchVars, callNo, error, snapshot,
                   cleaned_items, batch_size, calls, failedCall, dest, destAtCall>>

\* one iteration of "for i in range(batches)" whose execute() succeeds; after
\* the last one the function returns and so does the run
UpsertBatch ==
    /\ pc = "upsert"
    /\ i < batches
    /\ LET batch == BatchSlice(cleaned_items, i, batch_size)
       IN  /\ calls' = Append(calls, batch)
           /\ dest' = UpsertRows(dest, batch)
    /\ i' = i + 1
    /\ pc' = IF i + 1 < batches THEN "upsert" ELSE "done"
    /\ destFirst' = IF i + 1 < batches THEN destFirst ELSE Completed(dest')
    /\ UNCHANGED <<normVars, cfgVars, upstream, fetchVars, callNo, error, snapshot,
                   cleaned_items, batch_size, batches, failedCall, destAtCall>>

\* faulty variant: a batch whose execute() raises is logged and the loop goes on
UpsertFailContinue ==
    /\ pc = "upsert"
    /\ i < batches
    /\ failedCall' = [k |-> i + 1, batch |-> BatchSlice(cleaned_items, i, batch_size)]
    /\ error' = "UpsertError"
    /\ i' = i + 1
    /\ pc' = IF i + 1 < batches THEN "upsert" ELSE "failed"
    /\ UNCHANGED <<normVars, cfgVars, upstream, fetchVars, callNo, snapshot,
                   cleaned_items, batch_size, batches, calls, dest, destFirst,
                   destAtCall>>

\* execute() raises for the batch of iteration i: the exception leaves the
\* loop, upsert_to_supabase and the run; the store rejects the batch whole
UpsertFail ==
    /\ pc = "upsert"
    /\ i < batches
    /\ failedCall' = [k |-> i + 1, batch |-> BatchSlice(cleaned_items, i, batch_size)]
    /\ error' = "UpsertError"
    /\ pc' = "failed"
    /\ UNCHANGED <<normVars, cfgVars, upstream, fetchVars, callNo, snapshot,
                   cleaned_items, batch_size, batches, i, calls, dest, destFirst,
                   destAtCall>>

\* upsert_to_supabase is called again with the same rows, as a re-run of the
\* pipeline against an unchanged upstream does
UpsertAgain ==
    /\ pc \in {"done", "failed"}
    /\ callNo < MaxCalls
    /\ callNo' = callNo + 1
    /\ pc' = "call"
    /\ error' = ""
    /\ batches' = 0
    /\ i' = 0
    /\ calls' = <<>>
    /\ failedCall' = NoFailedCall
    /\ destAtCall' = dest
    /\ UNCHANGED <<normVars, cfgVars, upstream, fetchVars, snapshot,
                   cleaned_items, batch_size, dest, destFirst>>

-----------------------------------------------------------------------------
(* clean_record applied to one raw record.                                 *)

CleanRecord ==
    /\ cpc = "input"
    /\ out' = clean_record(raw)
    /\ cpc' = "cleaned"
    /\ UNCHANGED <<raw, cfgVars, upstream, fetchVars, pc, callNo, error, snapshot,
                   cleaned_items, upVars, dest, destFirst, destAtCall>>

-----------------------------------------------------------------------------
(* Specifications.                                                         *)

IdleRun ==
    /\ total_count = 0
    /\ total_pages = 0
    /\ page = 0
    /\ all_items = <<>>
    /\ requests = <<>>
    /\ error = ""
    /\ snapshot = NoSnapshot
    /\ batches = 0
    /\ i = 0
    /\ calls = <<>>
    /\ failedCall = NoFailedCall
    /\ callNo = 1
    /\ upstream = <<>>
    /\ destFirst = NoTable

IdleNorm == raw = EmptyDict /\ out = EmptyDict /\ cpc = "idle"

\* one run of the whole pipeline
Init ==
    /\ IdleNorm
    /\ IdleRun
    /\ cfgOk \in BOOLEAN
    /\ save_raw \in BOOLEAN
    /\ num_of_rows \in 0..MaxPageSize
    /\ probeTotal \in {[present |-> FALSE, value |-> 0]}
                      \cup {[present |-> TRUE, value |-> c] : c \in 0..MaxCount}
    /\ pc = "start"
    /\ cleaned_items = <<>>
    /\ batch_size = 0
    /\ dest = <<>>
    /\ destAtCall = <<>>

Next ==
    \/ ConfigMissing
    \/ Probe
    \/ ProbeFail
    \/ FetchDataPage
    \/ FetchDataPageFail
    \/ SaveSnapshot
    \/ SaveSnapshotFail
    \/ Normalize
    \/ UpsertBegin
    \/ UpsertBatch
    \/ UpsertFail

Spec == Init /\ [][Next]_vars

\* normalised rows given to upsert_to_supabase on its own
NormRows == {clean_record(RecA), clean_record(RecA2), clean_record(RecB)}

\* upsert_to_supabase called, up to MaxCalls times, with any rows and any
\* batch size
InitUpsert ==
    /\ IdleNorm
    /\ IdleRun
    /\ cfgOk = TRUE
    /\ save_raw = FALSE
    /\ num_of_rows = 1
    /\ probeTotal = [present |-> FALSE, value |-> 0]
    /\ pc = "call"
    /\ cleaned_items \in SeqsUpTo(NormRows, MaxRows)
    /\ batch_size \in 1..MaxBatch
    /\ dest \in {<<>>, <<clean_record(RecA)>>}
    /\ destAtCall = dest

NextUpsert ==
    \/ UpsertBegin
    \/ UpsertBatch
    \/ UpsertFail
    \/ UpsertAgain

SpecUpsert == InitUpsert /\ [][NextUpsert]_vars

\* clean_record called with any raw record
InitClean ==
    /\ IdleRun
    /\ \E bg \in BackgroundForms, col \in Columns, f \in FocusForms,
          v \in Values, w \in OtherValues :
            raw = RawRecord(bg, col, f, v, w)
    /\ out = EmptyDict
    /\ cpc = "input"
    /\ cfgOk = TRUE
    /\ save_raw = FALSE
    /\ num_of_rows = 1
    /\ probeTotal = [present |-> FALSE, value |-> 0]
    /\ pc = "idle"
    /\ cleaned_items = <<>>
    /\ batch_size = 0
    /\ dest = <<>>
    /\ destAtCall = <<>>

NextClean == CleanRecord

SpecClean == InitClean /\ [][NextClean]_vars

-----------------------------------------------------------------------------
(* Properties of the normaliser, checked under SpecClean.                  *)

\* a string of the form YYYY-MM-DD
IsIsoDate(s) ==
    /\ Len(s) = 10
    /\ s[5] = "-"
    /\ s[8] = "-"
    /\ \A k \in {1, 2, 3, 4, 6, 7, 9, 10} : IsDigitChar(s[k])

OrdinaryColumns == Columns \ {COL_NOTIFICATION_DATE, COL_DEL_YN}

\* the trimmed text of the value resolved for NOTIFICATION_DATE is 8 digits
DateIsCompact(r) ==
    LET v == Resolve(r, COL_NOTIFICATION_DATE)
    IN  Truthy(v) /\ Len(Strip(ToStr(v))) = 8 /\ IsDigit(Strip(ToStr(v)))

\* C3 as stated: the result of clean_record has exactly the 19 canonical
\* columns as keys, DEL_YN is a boolean, NOTIFICATION_DATE is null or a
\* string of the form YYYY-MM-DD, and the other 17 fields are strings.
C3_SchemaWithIsoDate ==
    cpc = "cleaned" =>
        /\ DOMAIN out = Columns
        /\ Cardinality(DOMAIN out) = 19
        /\ out[COL_DEL_YN].t = "bool"
        /\ \/ out[COL_NOTIFICATION_DATE] = PyNone
           \/ /\ out[COL_NOTIFICATION_DATE].t = "str"
              /\ IsIsoDate(out[COL_NOTIFICATION_DATE].s)
        /\ \A col \in OrdinaryColumns : out[col].t = "str"

\* C3 as amended: the result of clean_record has exactly the 19 canonical
\* columns as keys, DEL_YN is a boolean, the other 17 fields are strings, and
\* NOTIFICATION_DATE is null or a string, which has the form YYYY-MM-DD
\* whenever the trimmed text of the resolved value is 8 digits and is that
\* trimmed text otherwise.
C3_Schema ==
    cpc = "cleaned" =>
        /\ DOMAIN out = Columns
        /\ Cardinality(DOMAIN out) = 19
        /\ out[COL_DEL_YN] \in {PyBool(TRUE), PyBool(FALSE)}
        /\ out[COL_NOTIFICATION_DATE].t \in {"none", "str"}
        /\ out[COL_NOTIFICATION_DATE].t = "none" => out[COL_NOTIFICATION_DATE] = PyNone
        /\ DateIsCompact(raw) =>
              /\ out[COL_NOTIFICATION_DATE].t = "str"
              /\ IsIsoDate(out[COL_NOTIFICATION_DATE].s)
        /\ (out[COL_NOTIFICATION_DATE].t = "str" /\ ~DateIsCompact(raw)) =>
              out[COL_NOTIFICATION_DATE].s
                  = Strip(ToStr(Resolve(raw, COL_NOTIFICATION_DATE)))
        /\ \A col \in OrdinaryColumns :
              out[col].t = "str" /\ out[col] = PyStr(out[col].s)

\* a raw record with a key that is no column, with a number in an ordinary
\* column and a date that is passed through, has been cleaned
C3_Witness ==
    /\ cpc = "cleaned"
    /\ DOMAIN raw /= Columns
    /\ \E col \in OrdinaryColumns : Resolve(raw, col).t = "int"
    /\ \E col \in OrdinaryColumns : out[col] = PyStr(<<"-", "1">>)

\* the values the DEL_YN rule lists as false
ListedFalse(v) ==
    \/ v.t = "str" /\ v.s \in { TOKEN_NORMAL, <<"f">>, <<"f","a","l","s","e">>,
                                <<"F","a","l","s","e">>, <<"N">>, <<"n">>, <<"0">> }
    \/ v.t = "bool" /\ ~v.b
    \/ v.t = "int" /\ v.n = 0

IsoOf(s) == <<s[1], s[2], s[3], s[4], "-", s[5], s[6], "-", s[7], s[8]>>

\* what the date rule is said to give for the resolved value v; a value that
\* is empty is one that is falsy or has an empty trimmed text
DateAsStated(v) ==
    LET txt == Strip(ToStr(v))
    IN  IF ~Truthy(v) \/ txt = <<>> THEN PyNone
        ELSE IF Len(txt) = 8 /\ IsDigit(txt) THEN PyStr(IsoOf(txt))
        ELSE PyStr(txt)

\* C5: NOTIFICATION_DATE becomes YYYY-MM-DD when the trimmed text of the
\* resolved value is 8 digits, null when the value is null or empty (also
\* when empty after trimming), and the trimmed text otherwise; normalising
\* the result again changes nothing.
C5_DateNormalised ==
    cpc = "cleaned" =>
        /\ out[COL_NOTIFICATION_DATE] = DateAsStated(Resolve(raw, COL_NOTIFICATION_DATE))
        /\ _parse_date_yyyymmdd(out[COL_NOTIFICATION_DATE]) = out[COL_NOTIFICATION_DATE]

\* the value of the first key of ks that r holds, None when it holds none
FirstPresent(r, ks) ==
    LET hits == {k \in DOMAIN ks : ks[k] \in DOMAIN r}
    IN  IF hits = {} THEN PyNone
        ELSE r[ks[CHOOSE k \in hits : \A m \in hits : k <= m]]

\* no two keys of r differ only by case
CaseUnambiguous(r) ==
    Cardinality({Lower(k) : k \in DOMAIN r}) = Cardinality(DOMAIN r)

\* r with every key k renamed to f[k]
Rekeyed(r, f) ==
    [k2 \in {f[k] : k \in DOMAIN r} |-> r[CHOOSE k \in DOMAIN r : f[k] = k2]]

\* C6: every column is resolved from the exact name, then the lowercase
\* name, then the uppercase name, first key present, null when none is; so
\* the same values under all-lowercase keys and under all-uppercase keys are
\* cleaned to the same record, and the exact name wins over the lowercase.
C6_Resolution ==
    cpc = "cleaned" =>
        /\ \A col \in Columns :
              out[col] = FieldValue(col, FirstPresent(raw, <<col, Lower(col), Upper(col)>>))
        /\ CaseUnambiguous(raw) =>
              clean_record(Rekeyed(raw, [k \in DOMAIN raw |-> Lower(k)]))
                  = clean_record(Rekeyed(raw, [k \in DOMAIN raw |-> Upper(k)]))

\* a record holding a column under its exact and its lowercase name, with
\* values that clean differently, has been cleaned from the exact one
C6_Witness ==
    /\ cpc = "cleaned"
    /\ \E col \in Columns :
          /\ col \in DOMAIN raw
          /\ Lower(col) \in DOMAIN raw
          /\ FieldValue(col, raw[col]) /= FieldValue(col, raw[Lower(col)])
          /\ out[col] = FieldValue(col, raw[col])

-----------------------------------------------------------------------------
(* Properties of the collector and the orchestrator, checked under Spec.   *)

\* the probe has answered
ProbeDone == requests /= <<>> /\ requests[1] = <<1, 1, TRUE>>

\* fetch_all_from_api has returned
Collected ==
    \/ pc \in {"collected", "fetched", "call", "upsert", "done"}
    \/ pc = "failed" /\ error \in {"OSError", "UpsertError"}

\* the least q with q * b >= a, for a >= 0 and b > 0
LeastCover(a, b) == CHOOSE q \in 0..a : q * b >= a /\ \A r \in 0..a : r * b >= a => q <= r

\* the requests made after the probe
DataRequests == SubSeq(requests, 2, Len(requests))

\* C1 as stated: for a page size > 0 the page count is the ceiling of
\* totalCount / pageSize (an absent totalCount counting as 0), and at least 1,
\* so that at least one data page is requested after the probe.
C1_AtLeastOnePage ==
    (ProbeDone /\ num_of_rows > 0) =>
        /\ total_count = (IF probeTotal.present THEN probeTotal.value ELSE 0)
        /\ total_pages = (IF LeastCover(total_count, num_of_rows) < 1
                          THEN 1 ELSE LeastCover(total_count, num_of_rows))
        /\ Collected => Len(DataRequests) >= 1

\* C1 as amended: for a page size > 0 the page count is the ceiling of
\* totalCount / pageSize (an absent totalCount counting as 0) with no
\* minimum, so totalCount = 0 gives 0 pages and no data page is requested
\* after the probe; the count is 1 only for a page size that is not positive.
\* A collection that completes has requested exactly that many data pages.
C1_TotalPages ==
    ProbeDone =>
        /\ total_count = (IF probeTotal.present THEN probeTotal.value ELSE 0)
        /\ num_of_rows > 0 => total_pages = LeastCover(total_count, num_of_rows)
        /\ num_of_rows <= 0 => total_pages = 1
        /\ Collected => Len(DataRequests) = total_pages

\* a collection over an upstream of no records has completed: no page was
\* requested after the probe
C1_Witness ==
    /\ Collected
    /\ num_of_rows > 0
    /\ probeTotal = [present |-> TRUE, value |-> 0]
    /\ total_pages = 0
    /\ requests = << <<1, 1, TRUE>> >>

\* the number of items on the pages before page p
RECURSIVE ItemsBefore(_)
ItemsBefore(p) == IF p <= 1 THEN 0 ELSE ItemsBefore(p - 1) + Len(upstream[p - 1])

\* C2: when every fetch succeeds, the collected sequence is the items of
\* pages 1..totalPages in page order and within-page order, each {"item": X}
\* replaced by X and every other item kept; nothing is dropped, duplicated or
\* reordered.
C2_Concatenation ==
    Collected =>
        /\ Len(upstream) = total_pages
        /\ Len(all_items) = ItemsBefore(total_pages + 1)
        /\ \A p \in 1..total_pages : \A j \in 1..Len(upstream[p]) :
              all_items[ItemsBefore(p) + j] =
                  (IF ITEM \in DOMAIN upstream[p][j].d
                   THEN upstream[p][j].d[ITEM] ELSE upstream[p][j])

\* pages of 2, 2 and 1 items for totalCount = 5 and a page size of 2, wrapped
\* and unwrapped items on one page, have been collected into 5 records
C2_Witness ==
    /\ Collected
    /\ total_count = 5
    /\ num_of_rows = 2
    /\ Len(upstream) = 3
    /\ <<Len(upstream[1]), Len(upstream[2]), Len(upstream[3])>> = <<2, 2, 1>>
    /\ upstream[1] = <<Wrap(RecB), PyDict(RecA)>>
    /\ Len(all_items) = 5

\* C10: no upsert call is issued, nothing cleaned and no snapshot written
\* until the probe and every page 1..totalPages have been fetched
\* successfully; when the probe or a page fetch fails, that request is the
\* last one (no later page, no retry), the run has ended with the error, no
\* snapshot of the partial list exists and nothing was written.
C10_FetchBeforeWrite ==
    /\ (calls /= <<>> \/ cleaned_items /= <<>> \/ snapshot.saved
            \/ pc \in {"fetched", "call", "upsert", "done"}) =>
          requests = << <<1, 1, TRUE>> >>
                        \o [p \in 1..total_pages |-> <<p, num_of_rows, TRUE>>]
    /\ (\E k \in DOMAIN requests : ~requests[k][3]) =>
          /\ pc = "failed"
          /\ error = "FetchError"
          /\ \A k \in DOMAIN requests : requests[k][3] <=> k < Len(requests)
          /\ requests[1][1] = 1 /\ requests[1][2] = 1
          /\ \A k \in 2..Len(requests) : requests[k] = <<k - 1, num_of_rows, k < Len(requests)>>
          /\ ~snapshot.saved
          /\ cleaned_items = <<>>
          /\ calls = <<>>
          /\ dest = destAtCall
    /\ error = "FetchError" => \E k \in DOMAIN requests : ~requests[k][3]

\* with a snapshot asked for, the fetch of the third page has failed after
\* two pages had been collected
C10_Witness ==
    /\ pc = "failed"
    /\ error = "FetchError"
    /\ save_raw
    /\ Len(requests) = 4
    /\ Len(all_items) >= 2

-----------------------------------------------------------------------------
(* Properties of the batched write, checked under SpecUpsert.              *)

Min(a, b) == IF a <= b THEN a ELSE b

\* calls[k] is rows k of the partition of cleaned_items into runs of batch_size
IsBatch(batch, k) ==
    /\ Len(batch) = Min(batch_size, Len(cleaned_items) - (k - 1) * batch_size)
    /\ \A j \in 1..Len(batch) : batch[j] = cleaned_items[(k - 1) * batch_size + j]

\* the rows of the first n calls, in call order
RECURSIVE RowsOfCalls(_)
RowsOfCalls(n) == IF n = 0 THEN <<>> ELSE RowsOfCalls(n - 1) \o calls[n]

\* C7: N rows and a batch size B >= 1 give exactly ceil(N / B) upsert calls,
\* in index order; every batch is a contiguous slice of 1..B rows, only the
\* last may be shorter than B, their concatenation is the input; no rows,
\* no call.
C7_Batches ==
    /\ \A k \in DOMAIN calls :
          /\ IsBatch(calls[k], k)
          /\ Len(calls[k]) >= 1
          /\ Len(calls[k]) <= batch_size
          /\ k < Len(calls) => Len(calls[k]) = batch_size
    /\ pc = "done" =>
          /\ Len(calls) = LeastCover(Len(cleaned_items), batch_size)
          /\ RowsOfCalls(Len(calls)) = cleaned_items
    /\ Len(cleaned_items) = 0 => calls = <<>>

\* four rows have been written in batches of three: two calls, of 3 and 1
C7_Witness ==
    /\ pc = "done"
    /\ Len(cleaned_items) = 4
    /\ batch_size = 3
    /\ Len(calls) = 2
    /\ Len(calls[1]) = 3
    /\ Len(calls[2]) = 1

\* the table after the first n calls of this call of upsert_to_supabase
RECURSIVE TableAfter(_)
TableAfter(n) == IF n = 0 THEN destAtCall ELSE UpsertRows(TableAfter(n - 1), calls[n])

\* C8: when the upsert of batch k fails, the error ends the run, batches
\* 1..k-1 and no other have been written, and the destination holds exactly
\* their effects.
C8_AbortOnFailure ==
    /\ error = "UpsertError" =>
          /\ pc = "failed"
          /\ failedCall.k = Len(calls) + 1
          /\ failedCall.k <= batches
          /\ IsBatch(failedCall.batch, failedCall.k)
          /\ \A k \in DOMAIN calls : IsBatch(calls[k], k)
          /\ dest = TableAfter(Len(calls))
    /\ failedCall.k > 0 => error = "UpsertError"

\* the second of several batches has failed and the first one stays written
C8_Witness ==
    /\ pc = "failed"
    /\ error = "UpsertError"
    /\ failedCall.k = 2
    /\ batches >= 3
    /\ dest /= destAtCall

\* the last of the rows that has the key of row k
LastWithKey(rows, k) ==
    rows[CHOOSE m \in DOMAIN rows :
            /\ NaturalKey(rows[m]) = NaturalKey(rows[k])
            /\ \A n \in DOMAIN rows : NaturalKey(rows[n]) = NaturalKey(rows[k]) => n <= m]

\* C9: writing is idempotent: the destination never holds two rows of one
\* natural key; a completed write leaves, for every row written, one row of
\* its key, carrying the last values written for it; and a write of the same
\* rows that completes later leaves the table as the first completed one did.
C9_Idempotent ==
    /\ \A a, b \in DOMAIN dest : NaturalKey(dest[a]) = NaturalKey(dest[b]) => a = b
    /\ pc = "done" =>
          \A k \in DOMAIN cleaned_items :
              \E a \in DOMAIN dest : dest[a] = LastWithKey(cleaned_items, k)
    /\ (pc = "done" /\ destFirst.set) => dest = destFirst.rows

\* the same rows, two of them of one key in different batches, have been
\* written a second time
C9_Witness ==
    /\ pc = "done"
    /\ callNo = 2
    /\ Len(calls) >= 2
    /\ Len(dest) < Len(cleaned_items)
    /\ \E a \in DOMAIN calls[1], b \in DOMAIN calls[2] :
          /\ NaturalKey(calls[1][a]) = NaturalKey(calls[2][b])
          /\ calls[1][a] /= calls[2][b]
    /\ destFirst.set
    /\ dest = destFirst.rows

=============================================================================
